---- MODULE Spec2Model ----
(***************************************************************************)
(* The Conan recipe CommonGameServerConan (src/conanfile.py) as a state    *)
(* machine.  Conan drives a recipe through its methods one after the       *)
(* other: the options are fixed first (defaults, then user overrides),     *)
(* then requirements(), build_requirements(), layout(), generate(),        *)
(* build() and package_info() run.  Every statement of a method is one     *)
(* step; a conditional and its body are one step.                          *)
(*                                                                         *)
(* Two recipe runs are modelled side by side (Runs), each with its own     *)
(* option assignment and its own recipe object, so that statements about   *)
(* two runs that differ in one option can be checked on a single state.    *)
(***************************************************************************)
EXTENDS Naturals, Sequences, FiniteSets, TLC

VARIABLES
    pc,             \* pc[r]: the statement run r executes next
    overridden,     \* overridden[r]: the options the user set for run r
    options,        \* options[r]: self.options, option name -> option value
    requires,       \* requires[r]: the references passed to self.requires
    test_requires,  \* test_requires[r]: the references passed to self.test_requires
    folders,        \* folders[r]: the layout applied to the recipe
    deps,           \* deps[r]: the CMakeDeps object of generate()
    tc,             \* tc[r]: the CMakeToolchain object of generate()
    generated,      \* generated[r]: the generator calls made, in order
    toolchain_file, \* toolchain_file[r]: the variables tc.generate() wrote out
    cmake,          \* cmake[r]: the CMake helper of build()
    cmake_log,      \* cmake_log[r]: the calls made on the CMake helper, in order
    cpp_info        \* cpp_info[r]: self.cpp_info

vars == << pc, overridden, options, requires, test_requires, folders, deps, tc,
           generated, toolchain_file, cmake, cmake_log, cpp_info >>

\* The recipe runs considered together.
Runs == {1, 2}

----------------------------------------------------------------------------
\* Python values and helpers

\* An empty dict.
EmptyMap == [k \in {} |-> TRUE]

\* d[k] = v on a dict.
Put(d, k, v) == [x \in (DOMAIN d) \cup {k} |-> IF x = k THEN v ELSE d[x]]

\* The declared options: each name with the values it may take.  Conan keeps
\* an option value as the text of the declared value.
options_decl ==
    [ build_tests      |-> {"True", "False"},
      build_benchmarks |-> {"True", "False"},
      build_services   |-> {"True", "False"} ]

OptionNames == DOMAIN options_decl

\* A slip in the defaults: the benchmarks are on by default.
default_options_benchmarks_on ==
    [ build_tests      |-> "True",
      build_benchmarks |-> "True",
      build_services   |-> "False" ]

default_options ==
    [ build_tests      |-> "True",
      build_benchmarks |-> "False",
      build_services   |-> "False" ]

\* bool(self.options.x), also the truth value `if self.options.x` tests: an
\* option value is true unless it is one of the texts that mean false.
bool(v) == v \notin {"False", "false", "None", "none", "0", "off", "Off", ""}

----------------------------------------------------------------------------
\* Initial state: a fresh recipe object per run, options at their defaults.

Init ==
    /\ pc = [r \in Runs |-> "configure"]
    /\ overridden = [r \in Runs |-> {}]
    /\ options = [r \in Runs |-> default_options]
    /\ requires = [r \in Runs |-> << >>]
    /\ test_requires = [r \in Runs |-> << >>]
    /\ folders = [r \in Runs |-> "unset"]
    /\ deps = [r \in Runs |-> "none"]
    /\ tc = [r \in Runs |-> [state |-> "none", variables |-> EmptyMap]]
    /\ generated = [r \in Runs |-> << >>]
    /\ toolchain_file = [r \in Runs |-> EmptyMap]
    /\ cmake = [r \in Runs |-> "none"]
    /\ cmake_log = [r \in Runs |-> << >>]
    /\ cpp_info = [r \in Runs |-> [properties |-> EmptyMap, includedirs |-> << >>]]

----------------------------------------------------------------------------
\* Option resolution (before any method runs)

\* The user sets option o to one of its declared values (-o name=value);
\* an option is given at most once.
set_option(r, o, v) ==
    /\ pc[r] = "configure"
    /\ o \notin overridden[r]
    /\ v \in options_decl[o]
    /\ options' = [options EXCEPT ![r][o] = v]
    /\ overridden' = [overridden EXCEPT ![r] = @ \cup {o}]
    /\ UNCHANGED << pc, requires, test_requires, folders, deps, tc, generated,
                    toolchain_file, cmake, cmake_log, cpp_info >>

\* The options are final; the methods of the recipe start to run.
start(r) ==
    /\ pc[r] = "configure"
    /\ pc' = [pc EXCEPT ![r] = "requirements"]
    /\ UNCHANGED << overridden, options, requires, test_requires, folders, deps,
                    tc, generated, toolchain_file, cmake, cmake_log, cpp_info >>

----------------------------------------------------------------------------
\* requirements()

\* A slip: the runtime requirement is declared only when the services are built.
requirements_only_with_services(r) ==
    /\ pc[r] = "requirements"
    /\ requires' =
           [requires EXCEPT ![r] =
               IF bool(options[r].build_services)
               THEN Append(@, "yaml-cpp/0.8.0") ELSE @]
    /\ pc' = [pc EXCEPT ![r] = "build_requirements_tests"]
    /\ UNCHANGED << overridden, options, test_requires, folders, deps, tc,
                    generated, toolchain_file, cmake, cmake_log, cpp_info >>

requirements(r) ==
    /\ pc[r] = "requirements"
    /\ requires' = [requires EXCEPT ![r] = Append(@, "yaml-cpp/0.8.0")]
    /\ pc' = [pc EXCEPT ![r] = "build_requirements_tests"]
    /\ UNCHANGED << overridden, options, test_requires, folders, deps, tc,
                    generated, toolchain_file, cmake, cmake_log, cpp_info >>

----------------------------------------------------------------------------
\* build_requirements()

\* A slip: the unit-testing framework follows build_services.
build_requirements_tests_reads_services(r) ==
    /\ pc[r] = "build_requirements_tests"
    /\ test_requires' =
           [test_requires EXCEPT ![r] =
               IF bool(options[r].build_services)
               THEN Append(@, "gtest/1.15.0") ELSE @]
    /\ pc' = [pc EXCEPT ![r] = "build_requirements_benchmarks"]
    /\ UNCHANGED << overridden, options, requires, folders, deps, tc, generated,
                    toolchain_file, cmake, cmake_log, cpp_info >>

build_requirements_tests(r) ==
    /\ pc[r] = "build_requirements_tests"
    /\ test_requires' =
           [test_requires EXCEPT ![r] =
               IF bool(options[r].build_tests) THEN Append(@, "gtest/1.15.0") ELSE @]
    /\ pc' = [pc EXCEPT ![r] = "build_requirements_benchmarks"]
    /\ UNCHANGED << overridden, options, requires, folders, deps, tc, generated,
                    toolchain_file, cmake, cmake_log, cpp_info >>

\* A slip: the benchmarking framework follows build_tests.
build_requirements_benchmarks_reads_tests(r) ==
    /\ pc[r] = "build_requirements_benchmarks"
    /\ test_requires' =
           [test_requires EXCEPT ![r] =
               IF bool(options[r].build_tests)
               THEN Append(@, "benchmark/1.9.1") ELSE @]
    /\ pc' = [pc EXCEPT ![r] = "layout"]
    /\ UNCHANGED << overridden, options, requires, folders, deps, tc, generated,
                    toolchain_file, cmake, cmake_log, cpp_info >>

build_requirements_benchmarks(r) ==
    /\ pc[r] = "build_requirements_benchmarks"
    /\ test_requires' =
           [test_requires EXCEPT ![r] =
               IF bool(options[r].build_benchmarks)
               THEN Append(@, "benchmark/1.9.1") ELSE @]
    /\ pc' = [pc EXCEPT ![r] = "layout"]
    /\ UNCHANGED << overridden, options, requires, folders, deps, tc, generated,
                    toolchain_file, cmake, cmake_log, cpp_info >>

----------------------------------------------------------------------------
\* layout()

layout(r) ==
    /\ pc[r] = "layout"
    /\ folders' = [folders EXCEPT ![r] = "cmake_layout"]
    /\ pc' = [pc EXCEPT ![r] = "generate_deps"]
    /\ UNCHANGED << overridden, options, requires, test_requires, deps, tc,
                    generated, toolchain_file, cmake, cmake_log, cpp_info >>

----------------------------------------------------------------------------
\* generate()

\* deps = CMakeDeps(self)
generate_deps(r) ==
    /\ pc[r] = "generate_deps"
    /\ deps' = [deps EXCEPT ![r] = "created"]
    /\ pc' = [pc EXCEPT ![r] = "generate_deps_generate"]
    /\ UNCHANGED << overridden, options, requires, test_requires, folders, tc,
                    generated, toolchain_file, cmake, cmake_log, cpp_info >>

\* deps.generate()
generate_deps_generate(r) ==
    /\ pc[r] = "generate_deps_generate"
    /\ deps' = [deps EXCEPT ![r] = "generated"]
    /\ generated' = [generated EXCEPT ![r] = Append(@, "deps.generate")]
    /\ pc' = [pc EXCEPT ![r] = "generate_tc"]
    /\ UNCHANGED << overridden, options, requires, test_requires, folders, tc,
                    toolchain_file, cmake, cmake_log, cpp_info >>

\* tc = CMakeToolchain(self)
generate_tc(r) ==
    /\ pc[r] = "generate_tc"
    /\ tc' = [tc EXCEPT ![r] = [state |-> "created", variables |-> EmptyMap]]
    /\ pc' = [pc EXCEPT ![r] = "generate_var_tests"]
    /\ UNCHANGED << overridden, options, requires, test_requires, folders, deps,
                    generated, toolchain_file, cmake, cmake_log, cpp_info >>

\* tc.variables["CGS_BUILD_TESTS"] = bool(self.options.build_tests)
generate_var_tests(r) ==
    /\ pc[r] = "generate_var_tests"
    /\ tc' = [tc EXCEPT ![r].variables =
                 Put(@, "CGS_BUILD_TESTS", bool(options[r].build_tests))]
    /\ pc' = [pc EXCEPT ![r] = "generate_var_benchmarks"]
    /\ UNCHANGED << overridden, options, requires, test_requires, folders, deps,
                    generated, toolchain_file, cmake, cmake_log, cpp_info >>

\* tc.variables["CGS_BUILD_BENCHMARKS"] = bool(self.options.build_benchmarks)
generate_var_benchmarks(r) ==
    /\ pc[r] = "generate_var_benchmarks"
    /\ tc' = [tc EXCEPT ![r].variables =
                 Put(@, "CGS_BUILD_BENCHMARKS", bool(options[r].build_benchmarks))]
    /\ pc' = [pc EXCEPT ![r] = "generate_var_services"]
    /\ UNCHANGED << overridden, options, requires, test_requires, folders, deps,
                    generated, toolchain_file, cmake, cmake_log, cpp_info >>

\* A slip: CGS_BUILD_SERVICES is given the value of build_tests.
generate_var_services_reads_tests(r) ==
    /\ pc[r] = "generate_var_services"
    /\ tc' = [tc EXCEPT ![r].variables =
                 Put(@, "CGS_BUILD_SERVICES", bool(options[r].build_tests))]
    /\ pc' = [pc EXCEPT ![r] = "generate_tc_generate"]
    /\ UNCHANGED << overridden, options, requires, test_requires, folders, deps,
                    generated, toolchain_file, cmake, cmake_log, cpp_info >>

\* tc.variables["CGS_BUILD_SERVICES"] = bool(self.options.build_services)
generate_var_services(r) ==
    /\ pc[r] = "generate_var_services"
    /\ tc' = [tc EXCEPT ![r].variables =
                 Put(@, "CGS_BUILD_SERVICES", bool(options[r].build_services))]
    /\ pc' = [pc EXCEPT ![r] = "generate_tc_generate"]
    /\ UNCHANGED << overridden, options, requires, test_requires, folders, deps,
                    generated, toolchain_file, cmake, cmake_log, cpp_info >>

\* tc.generate(): the toolchain file is written with the variables set so far.
generate_tc_generate(r) ==
    /\ pc[r] = "generate_tc_generate"
    /\ tc' = [tc EXCEPT ![r].state = "generated"]
    /\ toolchain_file' = [toolchain_file EXCEPT ![r] = tc[r].variables]
    /\ generated' = [generated EXCEPT ![r] = Append(@, "tc.generate")]
    /\ pc' = [pc EXCEPT ![r] = "build_cmake"]
    /\ UNCHANGED << overridden, options, requires, test_requires, folders, deps,
                    cmake, cmake_log, cpp_info >>

----------------------------------------------------------------------------
\* build()

\* cmake = CMake(self)
build_cmake(r) ==
    /\ pc[r] = "build_cmake"
    /\ cmake' = [cmake EXCEPT ![r] = "created"]
    /\ pc' = [pc EXCEPT ![r] = "build_configure"]
    /\ UNCHANGED << overridden, options, requires, test_requires, folders, deps,
                    tc, generated, toolchain_file, cmake_log, cpp_info >>

\* cmake.configure()
build_configure(r) ==
    /\ pc[r] = "build_configure"
    /\ cmake_log' = [cmake_log EXCEPT ![r] = Append(@, "configure")]
    /\ pc' = [pc EXCEPT ![r] = "build_build"]
    /\ UNCHANGED << overridden, options, requires, test_requires, folders, deps,
                    tc, generated, toolchain_file, cmake, cpp_info >>

\* cmake.build()
build_build(r) ==
    /\ pc[r] = "build_build"
    /\ cmake_log' = [cmake_log EXCEPT ![r] = Append(@, "build")]
    /\ pc' = [pc EXCEPT ![r] = "build_test"]
    /\ UNCHANGED << overridden, options, requires, test_requires, folders, deps,
                    tc, generated, toolchain_file, cmake, cpp_info >>

\* A slip: the tests are run whatever build_tests says.
build_test_unconditional(r) ==
    /\ pc[r] = "build_test"
    /\ cmake_log' = [cmake_log EXCEPT ![r] = Append(@, "test")]
    /\ pc' = [pc EXCEPT ![r] = "package_info_file_name"]
    /\ UNCHANGED << overridden, options, requires, test_requires, folders, deps,
                    tc, generated, toolchain_file, cmake, cpp_info >>

\* A slip: the tests are run when the benchmarks are built.
build_test_reads_benchmarks(r) ==
    /\ pc[r] = "build_test"
    /\ cmake_log' =
           [cmake_log EXCEPT ![r] =
               IF bool(options[r].build_benchmarks) THEN Append(@, "test") ELSE @]
    /\ pc' = [pc EXCEPT ![r] = "package_info_file_name"]
    /\ UNCHANGED << overridden, options, requires, test_requires, folders, deps,
                    tc, generated, toolchain_file, cmake, cpp_info >>

\* if self.options.build_tests: cmake.test()
build_test(r) ==
    /\ pc[r] = "build_test"
    /\ cmake_log' =
           [cmake_log EXCEPT ![r] =
               IF bool(options[r].build_tests) THEN Append(@, "test") ELSE @]
    /\ pc' = [pc EXCEPT ![r] = "package_info_file_name"]
    /\ UNCHANGED << overridden, options, requires, test_requires, folders, deps,
                    tc, generated, toolchain_file, cmake, cpp_info >>

----------------------------------------------------------------------------
\* package_info()

\* self.cpp_info.set_property("cmake_file_name", "cgs")
package_info_file_name(r) ==
    /\ pc[r] = "package_info_file_name"
    /\ cpp_info' = [cpp_info EXCEPT ![r].properties =
                       Put(@, "cmake_file_name", "cgs")]
    /\ pc' = [pc EXCEPT ![r] = "package_info_target_name"]
    /\ UNCHANGED << overridden, options, requires, test_requires, folders, deps,
                    tc, generated, toolchain_file, cmake, cmake_log >>

\* A slip: the target name depends on build_services.
package_info_target_name_by_services(r) ==
    /\ pc[r] = "package_info_target_name"
    /\ cpp_info' = [cpp_info EXCEPT ![r].properties =
                       Put(@, "cmake_target_name",
                           IF bool(options[r].build_services)
                           THEN "cgs::cgs_services" ELSE "cgs::cgs_core")]
    /\ pc' = [pc EXCEPT ![r] = "package_info_includedirs"]
    /\ UNCHANGED << overridden, options, requires, test_requires, folders, deps,
                    tc, generated, toolchain_file, cmake, cmake_log >>

\* self.cpp_info.set_property("cmake_target_name", "cgs::cgs_core")
package_info_target_name(r) ==
    /\ pc[r] = "package_info_target_name"
    /\ cpp_info' = [cpp_info EXCEPT ![r].properties =
                       Put(@, "cmake_target_name", "cgs::cgs_core")]
    /\ pc' = [pc EXCEPT ![r] = "package_info_includedirs"]
    /\ UNCHANGED << overridden, options, requires, test_requires, folders, deps,
                    tc, generated, toolchain_file, cmake, cmake_log >>

\* self.cpp_info.includedirs = ["include"]
package_info_includedirs(r) ==
    /\ pc[r] = "package_info_includedirs"
    /\ cpp_info' = [cpp_info EXCEPT ![r].includedirs = << "include" >>]
    /\ pc' = [pc EXCEPT ![r] = "done"]
    /\ UNCHANGED << overridden, options, requires, test_requires, folders, deps,
                    tc, generated, toolchain_file, cmake, cmake_log >>

----------------------------------------------------------------------------

Next ==
    \E r \in Runs :
        \/ \E o \in OptionNames : \E v \in options_decl[o] : set_option(r, o, v)
        \/ start(r)
        \/ requirements(r)
        \/ build_requirements_tests(r)
        \/ build_requirements_benchmarks(r)
        \/ layout(r)
        \/ generate_deps(r)
        \/ generate_deps_generate(r)
        \/ generate_tc(r)
        \/ generate_var_tests(r)
        \/ generate_var_benchmarks(r)
        \/ generate_var_services(r)
        \/ generate_tc_generate(r)
        \/ build_cmake(r)
        \/ build_configure(r)
        \/ build_build(r)
        \/ build_test(r)
        \/ package_info_file_name(r)
        \/ package_info_target_name(r)
        \/ package_info_includedirs(r)

Spec == Init /\ [][Next]_vars

----------------------------------------------------------------------------
\* Properties

\* The statements of a run in the order they execute.
PcOrder ==
    << "configure", "requirements", "build_requirements_tests",
       "build_requirements_benchmarks", "layout", "generate_deps",
       "generate_deps_generate", "generate_tc", "generate_var_tests",
       "generate_var_benchmarks", "generate_var_services", "generate_tc_generate",
       "build_cmake", "build_configure", "build_build", "build_test",
       "package_info_file_name", "package_info_target_name",
       "package_info_includedirs", "done" >>

Rank(p) == CHOOSE i \in 1..Len(PcOrder) : PcOrder[i] = p

\* Run r has executed statement p.
Past(r, p) == Rank(pc[r]) > Rank(p)

\* Option o of run r is enabled (its value is the declared value True).
Enabled(r, o) == options[r][o] = "True"

Elems(seq) == { seq[i] : i \in 1..Len(seq) }

IsPrefix(s, t) == Len(s) <= Len(t) /\ s = SubSeq(t, 1, Len(s))

\* Two runs have the same value for every option but o.
SameBut(r1, r2, o) == \A n \in OptionNames \ {o} : options[r1][n] = options[r2][n]

\* C1: build() calls cmake.configure, then cmake.build, then cmake.test, the
\* last exactly when build_tests is enabled; with build_tests disabled the
\* calls end with cmake.build.
C1_TestRunnerIffBuildTests ==
    \A r \in Runs :
        /\ IsPrefix(cmake_log[r], << "configure", "build", "test" >>)
        /\ "test" \in Elems(cmake_log[r]) => Enabled(r, "build_tests")
        /\ Past(r, "build_test") =>
               cmake_log[r] = IF Enabled(r, "build_tests")
                              THEN << "configure", "build", "test" >>
                              ELSE << "configure", "build" >>

\* One run has built with the tests on and run them, the other has built with
\* the tests off.
C1_Witness ==
    /\ pc[1] = "done" /\ Enabled(1, "build_tests")
    /\ cmake_log[1] = << "configure", "build", "test" >>
    /\ pc[2] = "done" /\ ~Enabled(2, "build_tests")
    /\ cmake_log[2] = << "configure", "build" >>

\* C2: once build_requirements() has run, gtest/1.15.0 is a test requirement
\* exactly when build_tests is enabled and benchmark/1.9.1 exactly when
\* build_benchmarks is enabled, and nothing else is a test requirement.
C2_TestRequiresFollowOptions ==
    \A r \in Runs :
        /\ Elems(test_requires[r]) \subseteq {"gtest/1.15.0", "benchmark/1.9.1"}
        /\ Past(r, "build_requirements_benchmarks") =>
               /\ "gtest/1.15.0" \in Elems(test_requires[r])
                      <=> Enabled(r, "build_tests")
               /\ "benchmark/1.9.1" \in Elems(test_requires[r])
                      <=> Enabled(r, "build_benchmarks")
               /\ Len(test_requires[r]) = Cardinality(Elems(test_requires[r]))

\* The two frameworks are decided separately: one run declares gtest alone,
\* the other benchmark alone.
C2_Witness ==
    /\ Past(1, "build_requirements_benchmarks")
    /\ test_requires[1] = << "gtest/1.15.0" >>
    /\ Past(2, "build_requirements_benchmarks")
    /\ test_requires[2] = << "benchmark/1.9.1" >>

\* The other two combinations: both frameworks, and none.
C2_WitnessBothAndNone ==
    /\ Past(1, "build_requirements_benchmarks")
    /\ test_requires[1] = << "gtest/1.15.0", "benchmark/1.9.1" >>
    /\ Past(2, "build_requirements_benchmarks")
    /\ test_requires[2] = << >>

\* C3: the options are exactly build_tests, build_benchmarks and
\* build_services, each True or False, and an option the user did not set has
\* its default: build_tests True, build_benchmarks False, build_services False.
C3_OptionsAndDefaults ==
    \A r \in Runs :
        /\ DOMAIN options[r] = {"build_tests", "build_benchmarks", "build_services"}
        /\ \A o \in DOMAIN options[r] : options[r][o] \in {"True", "False"}
        /\ "build_tests" \notin overridden[r] => options[r].build_tests = "True"
        /\ "build_benchmarks" \notin overridden[r] =>
               options[r].build_benchmarks = "False"
        /\ "build_services" \notin overridden[r] =>
               options[r].build_services = "False"

\* One run completes with no option set by the user, the other with all
\* three set against their defaults.
C3_Witness ==
    /\ pc[1] = "done" /\ overridden[1] = {}
    /\ pc[2] = "done" /\ overridden[2] = OptionNames
    /\ ~Enabled(2, "build_tests")
    /\ Enabled(2, "build_benchmarks")
    /\ Enabled(2, "build_services")

\* C4: once requirements() has run, yaml-cpp/0.8.0 is the one runtime
\* requirement, whatever the options; before it there is none.
C4_SingleRuntimeRequirement ==
    \A r \in Runs :
        requires[r] = IF Past(r, "requirements")
                      THEN << "yaml-cpp/0.8.0" >> ELSE << >>

\* Two completed runs with opposite values of every option.
C4_Witness ==
    /\ pc[1] = "done" /\ pc[2] = "done"
    /\ \A o \in OptionNames : options[1][o] # options[2][o]
    /\ requires[1] = << "yaml-cpp/0.8.0" >>
    /\ requires[2] = << "yaml-cpp/0.8.0" >>

\* C5: once package_info() has run, the package information is the include
\* directory "include", cmake_file_name "cgs" and cmake_target_name
\* "cgs::cgs_core", whatever the options.
C5_PackageInfoFixed ==
    \A r \in Runs :
        Past(r, "package_info_includedirs") =>
            /\ cpp_info[r].includedirs = << "include" >>
            /\ DOMAIN cpp_info[r].properties =
                   {"cmake_file_name", "cmake_target_name"}
            /\ cpp_info[r].properties["cmake_file_name"] = "cgs"
            /\ cpp_info[r].properties["cmake_target_name"] = "cgs::cgs_core"

\* Two completed runs with opposite values of every option expose the same.
C5_Witness ==
    /\ pc[1] = "done" /\ pc[2] = "done"
    /\ \A o \in OptionNames : options[1][o] # options[2][o]
    /\ cpp_info[1] = cpp_info[2]
    /\ cpp_info[1].includedirs = << "include" >>

\* C6: the generator calls are deps.generate then tc.generate, and the
\* toolchain tc.generate writes holds exactly CGS_BUILD_TESTS,
\* CGS_BUILD_BENCHMARKS and CGS_BUILD_SERVICES, each the boolean of its own
\* option.
C6_ToolchainVariables ==
    \A r \in Runs :
        /\ IsPrefix(generated[r], << "deps.generate", "tc.generate" >>)
        /\ Past(r, "generate_tc_generate") =>
               /\ generated[r] = << "deps.generate", "tc.generate" >>
               /\ DOMAIN toolchain_file[r] =
                      {"CGS_BUILD_TESTS", "CGS_BUILD_BENCHMARKS", "CGS_BUILD_SERVICES"}
               /\ toolchain_file[r]["CGS_BUILD_TESTS"] = Enabled(r, "build_tests")
               /\ toolchain_file[r]["CGS_BUILD_BENCHMARKS"] =
                      Enabled(r, "build_benchmarks")
               /\ toolchain_file[r]["CGS_BUILD_SERVICES"] =
                      Enabled(r, "build_services")

\* One run has generated with only build_services on, the other with only
\* build_services off.
C6_Witness ==
    /\ Past(1, "generate_tc_generate") /\ Past(2, "generate_tc_generate")
    /\ ~Enabled(1, "build_tests") /\ ~Enabled(1, "build_benchmarks")
    /\ Enabled(1, "build_services")
    /\ Enabled(2, "build_tests") /\ Enabled(2, "build_benchmarks")
    /\ ~Enabled(2, "build_services")
    /\ toolchain_file[1]["CGS_BUILD_SERVICES"] = TRUE
    /\ toolchain_file[2]["CGS_BUILD_SERVICES"] = FALSE

\* C7: within a run the test runner is invoked only if gtest was declared as
\* a test requirement, and a run that declared gtest has invoked the test
\* runner once build() has run.
C7_TestRunnerMatchesGtest ==
    \A r \in Runs :
        /\ "test" \in Elems(cmake_log[r]) =>
               "gtest/1.15.0" \in Elems(test_requires[r])
        /\ Past(r, "build_test") =>
               ("gtest/1.15.0" \in Elems(test_requires[r])
                    <=> "test" \in Elems(cmake_log[r]))

\* One run declared gtest and ran the tests with the benchmarks off; the
\* other declared no gtest and skipped the tests with the benchmarks on.
C7_Witness ==
    /\ pc[1] = "done" /\ pc[2] = "done"
    /\ "gtest/1.15.0" \in Elems(test_requires[1])
    /\ "test" \in Elems(cmake_log[1])
    /\ ~Enabled(1, "build_benchmarks")
    /\ "gtest/1.15.0" \notin Elems(test_requires[2])
    /\ "test" \notin Elems(cmake_log[2])
    /\ Enabled(2, "build_benchmarks")

\* C8: two runs at the same statement whose options agree except for
\* build_services have the same requirements, test requirements, layout,
\* generator calls, CMake calls and package information, and toolchains that
\* agree on every variable but CGS_BUILD_SERVICES; two runs at the same
\* statement that agree on build_tests have made the same CMake calls,
\* whatever build_benchmarks is.
C8_BuildServicesOnlyInToolchain ==
    \A r1 \in Runs : \A r2 \in Runs :
        pc[r1] = pc[r2] =>
            /\ SameBut(r1, r2, "build_services") =>
                   /\ requires[r1] = requires[r2]
                   /\ test_requires[r1] = test_requires[r2]
                   /\ folders[r1] = folders[r2]
                   /\ generated[r1] = generated[r2]
                   /\ cmake_log[r1] = cmake_log[r2]
                   /\ cpp_info[r1] = cpp_info[r2]
                   /\ DOMAIN toolchain_file[r1] = DOMAIN toolchain_file[r2]
                   /\ \A k \in DOMAIN toolchain_file[r1] \ {"CGS_BUILD_SERVICES"} :
                          toolchain_file[r1][k] = toolchain_file[r2][k]
            /\ options[r1].build_tests = options[r2].build_tests =>
                   cmake_log[r1] = cmake_log[r2]

\* Two completed runs that differ in build_services alone, and so in
\* CGS_BUILD_SERVICES.
C8_Witness ==
    /\ pc[1] = "done" /\ pc[2] = "done"
    /\ SameBut(1, 2, "build_services")
    /\ options[1].build_services # options[2].build_services
    /\ toolchain_file[1]["CGS_BUILD_SERVICES"] # toolchain_file[2]["CGS_BUILD_SERVICES"]
    /\ cmake_log[1] = cmake_log[2]

\* Two completed runs that differ in build_benchmarks alone.
C8_WitnessBenchmarks ==
    /\ pc[1] = "done" /\ pc[2] = "done"
    /\ SameBut(1, 2, "build_benchmarks")
    /\ options[1].build_benchmarks # options[2].build_benchmarks
    /\ Enabled(1, "build_tests")
    /\ cmake_log[1] = cmake_log[2]

====
